---- MODULE Spec2Model ----
(***************************************************************************)
(* Model of src/src/lib.rs: the FFT helper functions exported to Python    *)
(* (read_csv, fft_shift, compute_magnitude, generate_frequencies,          *)
(* fft_shift_frequencies, generate_plot_py).                               *)
(*                                                                         *)
(* Every function is a single-shot transform.  A behaviour is a host       *)
(* script: Init is the host holding prepared inputs, every action is one   *)
(* call, and a call may be fed the result of the previous call, as the     *)
(* pipeline compute_fft -> fft_shift -> compute_magnitude and              *)
(* generate_frequencies -> fft_shift_frequencies does.                     *)
(*                                                                         *)
(* f64 values are modelled as exact reduced fractions <<n, d>> with d > 0. *)
(* A Result is [status, value]: "ok" with the value, "err" (Err(..)) or    *)
(* "panic" (a Rust panic, surfaced by pyo3 as PanicException), both with   *)
(* the empty value <<>>.                                                   *)
(***************************************************************************)
EXTENDS Integers, Sequences, FiniteSets, TLC

VARIABLES inputKind, call, args, ret, prev

vars == <<inputKind, call, args, ret, prev>>

----------------------------------------------------------------------------
(* Bounds of the explored inputs *)

MaxLen == 5        \* longest sequence handed to fft_shift_frequencies
MaxVal == 2        \* its elements are 0..MaxVal
MaxRamp == 7       \* longest ramp 0, 1, 2, .. handed to fft_shift_frequencies
MaxPairLen == 3    \* longest sequence in a (real, imag) or (x, y) pair
MaxPairVal == 2    \* elements of the first sequence of a pair are 0..MaxPairVal
MaxN == 6          \* largest len handed to generate_frequencies
MaxRows == 2       \* most data records in a CSV file

----------------------------------------------------------------------------
(* f64 arithmetic on exact fractions *)

Abs(n) == IF n < 0 THEN -n ELSE n

RECURSIVE GCD(_, _)
GCD(a, b) == IF b = 0 THEN a ELSE GCD(b, a % b)

Rat(n, d) ==
    LET g == GCD(Abs(n), Abs(d))
        s == IF d < 0 THEN -1 ELSE 1
    IN  <<(s * n) \div g, (s * d) \div g>>

FromInt(n) == <<n, 1>>
RatMul(a, b) == Rat(a[1] * b[1], a[2] * b[2])
RatDiv(a, b) == Rat(a[1] * b[2], a[2] * b[1])
RatAdd(a, b) == Rat(a[1] * b[2] + b[1] * a[2], a[2] * b[2])
RatSub(a, b) == Rat(a[1] * b[2] - b[1] * a[2], a[2] * b[2])
RatNeg(a) == <<-a[1], a[2]>>
RatLt(a, b) == a[1] * b[2] < b[1] * a[2]
RatLe(a, b) == a[1] * b[2] <= b[1] * a[2]
RatMax(a, b) == IF RatLt(a, b) THEN b ELSE a
RatMin(a, b) == IF RatLt(b, a) THEN b ELSE a
Zero == FromInt(0)

\* (x).sqrt() kept exact: the square root is represented by its radicand
Sqrt(q) == [sqrt |-> q]

----------------------------------------------------------------------------
(* Results *)

Ok(v) == [status |-> "ok", value |-> v]
Err(kind) == [status |-> kind, value |-> <<>>]
NoResult == [status |-> "none", value |-> <<>>]
NoPrev == [call |-> "none", args |-> <<>>]

SeqsUpTo(S, n) == UNION {[1..k -> S] : k \in 0..n}

----------------------------------------------------------------------------
(* slice::rotate_left(mid) for mid <= len *)

\* mutant: the rotation goes the other way (rotate_right)
RotateLeftAsRight(s, mid) ==
    SubSeq(s, Len(s) - mid + 1, Len(s)) \o SubSeq(s, 1, Len(s) - mid)

RotateLeft(s, mid) == SubSeq(s, mid + 1, Len(s)) \o SubSeq(s, 1, mid)


----------------------------------------------------------------------------
(* fft_shift: half is computed once, from real, and used for both *)

FftShift(real, imag) ==
    LET len == Len(real)
        half == len \div 2
    IN  IF half > Len(imag)
        THEN Err("panic")      \* rotate_left asserts mid <= self.len()
        ELSE Ok(<<RotateLeft(real, half), RotateLeft(imag, half)>>)

(* compute_magnitude *)

Zip(a, b) ==
    LET n == IF Len(a) < Len(b) THEN Len(a) ELSE Len(b)
    IN  IF n = 0 THEN <<>> ELSE [i \in 1..n |-> <<a[i], b[i]>>]

\* mutant: the length check is dropped and zip stops at the shorter sequence
ComputeMagnitudeUnchecked(real, imag) ==
    LET pairs == Zip(real, imag)
    IN  Ok([i \in 1..Len(pairs) |->
              Sqrt(RatAdd(RatMul(pairs[i][1], pairs[i][1]),
                          RatMul(pairs[i][2], pairs[i][2])))])

ComputeMagnitude(real, imag) ==
    IF Len(real) # Len(imag)
    THEN Err("err")
    ELSE LET pairs == Zip(real, imag)
         IN  Ok([i \in 1..Len(pairs) |->
                   Sqrt(RatAdd(RatMul(pairs[i][1], pairs[i][1]),
                               RatMul(pairs[i][2], pairs[i][2])))])

(* generate_frequencies *)

\* mutant: the split between the two branches is off by one (k <= len / 2)
GenerateFrequenciesInclusive(len, sampling_interval) ==
    IF len = 0 \/ RatLe(sampling_interval, Zero)
    THEN Err("err")
    ELSE LET total_duration == RatMul(FromInt(len), sampling_interval)
         IN  Ok([i \in 1..len |->
                   LET k == i - 1
                   IN  IF k <= len \div 2
                       THEN RatDiv(FromInt(k), total_duration)
                       ELSE RatDiv(RatNeg(RatSub(FromInt(len), FromInt(k))),
                                   total_duration)])

GenerateFrequencies(len, sampling_interval) ==
    IF len = 0 \/ RatLe(sampling_interval, Zero)
    THEN Err("err")
    ELSE LET total_duration == RatMul(FromInt(len), sampling_interval)
         IN  Ok([i \in 1..len |->
                   LET k == i - 1
                   IN  IF k < len \div 2
                       THEN RatDiv(FromInt(k), total_duration)
                       ELSE RatDiv(RatNeg(RatSub(FromInt(len), FromInt(k))),
                                   total_duration)])

(* fft_shift_frequencies *)

\* mutant: half is rounded up instead of down
FftShiftFrequenciesCeil(data) ==
    LET len == Len(data)
        half == (len + 1) \div 2
    IN  Ok(RotateLeft(data, half))

FftShiftFrequencies(data) ==
    LET len == Len(data)
        half == len \div 2
    IN  Ok(RotateLeft(data, half))

----------------------------------------------------------------------------
(* generate_plot and generate_plot_py *)

\* f64::MAX and f64::MIN, the seeds of the bound folds: beyond every value explored
F64_MAX == FromInt(1000000)
F64_MIN == RatNeg(F64_MAX)

\* data.iter().map(coordinate).fold(acc, f64::max) and fold(acc, f64::min)
RECURSIVE FoldMax(_, _, _)
FoldMax(data, coord, acc) ==
    IF data = <<>> THEN acc
    ELSE FoldMax(Tail(data), coord, RatMax(acc, Head(data)[coord]))

RECURSIVE FoldMin(_, _, _)
FoldMin(data, coord, acc) ==
    IF data = <<>> THEN acc
    ELSE FoldMin(Tail(data), coord, RatMin(acc, Head(data)[coord]))

\* The chart generate_plot draws before encoding it, of which the PNG is a
\* function: <<x range, y range, polyline, <<x_desc, y_desc, caption>>>>.
Chart(data, x_label, y_label, title) ==
    LET max_x == FoldMax(data, 1, F64_MIN)
        min_x == FoldMin(data, 1, F64_MAX)
        max_y == FoldMax(data, 2, F64_MIN)
        min_y == FoldMin(data, 2, F64_MAX)
    IN  <<<<min_x, max_x>>, <<min_y, max_y>>, data, <<x_label, y_label, title>>>>

XRange(chart) == chart[1]
YRange(chart) == chart[2]
Series(chart) == chart[3]

\* An axis range that is empty or reversed; what plotters does with it is the
\* library's choice, so both outcomes are kept.
Degenerate(chart) ==
    \/ ~RatLt(XRange(chart)[1], XRange(chart)[2])
    \/ ~RatLt(YRange(chart)[1], YRange(chart)[2])

GeneratePlot(r, data, x_label, y_label, title) ==
    LET chart == Chart(data, x_label, y_label, title)
    IN  \/ r = Ok(chart)
        \/ Degenerate(chart) /\ r = Err("err")

GeneratePlotPy(r, x, y, x_label, y_label, title) ==
    LET data == Zip(x, y)
    IN  GeneratePlot(r, data, x_label, y_label, title)

----------------------------------------------------------------------------
(* read_csv *)

\* A field is the sequence of its characters.
Digits == <<"0", "1", "2", "3", "4", "5", "6", "7", "8", "9">>

IsDigit(c) == \E d \in 1..Len(Digits) : Digits[d] = c
DigitValue(c) == (CHOOSE d \in 1..Len(Digits) : Digits[d] = c) - 1

\* str::trim
RECURSIVE TrimStart(_)
TrimStart(f) ==
    IF f # <<>> /\ Head(f) = " " THEN TrimStart(Tail(f)) ELSE f

RECURSIVE TrimEnd(_)
TrimEnd(f) ==
    IF f # <<>> /\ f[Len(f)] = " " THEN TrimEnd(SubSeq(f, 1, Len(f) - 1)) ELSE f

Trim(f) == TrimEnd(TrimStart(f))

\* str::parse::<f64> on the unsigned decimal integers the explored files hold
RECURSIVE Decimal(_, _)
Decimal(f, acc) ==
    IF f = <<>> THEN acc ELSE Decimal(Tail(f), 10 * acc + DigitValue(Head(f)))

Parse(f) ==
    IF f # <<>> /\ \A i \in 1..Len(f) : IsDigit(f[i])
    THEN Ok(FromInt(Decimal(f, 0)))
    ELSE Err("err")

\* One item of reader.records(): the reader is built without flexible(true), so
\* a record whose field count differs from the first record's (the header's)
\* is Err(UnequalLengths).
RecordResult(record, nfields) ==
    IF Len(record) # nfields THEN Err("err") ELSE Ok(record)

RECURSIVE ReadRecords(_, _, _, _)
ReadRecords(rows, nfields, time, measured_data) ==
    IF rows = <<>> THEN Ok(<<time, measured_data>>)
    ELSE LET result == RecordResult(Head(rows), nfields)
             record == result.value
         IN  IF result.status # "ok" THEN Err("err")
             ELSE IF Len(record) >= 2
             THEN LET t == Parse(Trim(record[1]))
                      m == Parse(Trim(record[2]))
                  IN  IF t.status # "ok" THEN Err("err")
                      ELSE IF m.status # "ok" THEN Err("err")
                      ELSE ReadRecords(Tail(rows), nfields,
                                       Append(time, t.value),
                                       Append(measured_data, m.value))
             ELSE ReadRecords(Tail(rows), nfields, time, measured_data)

\* file: [exists, records]; records[1] is the header row when there is one
ReadCsv(file) ==
    IF ~file.exists THEN Err("err")
    ELSE IF file.records = <<>> THEN Ok(<<<<>>, <<>>>>)
    ELSE ReadRecords(Tail(file.records), Len(Head(file.records)), <<>>, <<>>)

----------------------------------------------------------------------------
(* Inputs the host prepares *)

Vals == {FromInt(v) : v \in 0..MaxVal}
Ramp(n) == [i \in 1..n |-> FromInt(i - 1)]
VecInputs == SeqsUpTo(Vals, MaxLen) \cup {Ramp(n) : n \in 0..MaxRamp}

PairVals == {FromInt(v) : v \in 0..MaxPairVal}
ImagVals == {FromInt(0), FromInt(1)}

SamplingIntervals == {Rat(-1, 1), Rat(0, 1), Rat(1, 2), Rat(1, 1), Rat(2, 1)}

DataFields == {<<"1">>, <<" ", "2", " ">>, <<"x">>}
ExtraField == <<"9">>
DataRecords ==
    {<<a>> : a \in DataFields}
    \cup {<<a, b>> : a, b \in DataFields}
    \cup {<<a, b, ExtraField>> : a, b \in DataFields}
HeaderRecords ==
    {<< <<"t">> >>, << <<"t">>, <<"v">> >>, << <<"t">>, <<"v">>, <<"w">> >>}
Files ==
    {[exists |-> FALSE, records |-> <<>>], [exists |-> TRUE, records |-> <<>>]}
    \cup {[exists |-> TRUE, records |-> <<h>> \o rows] :
            h \in HeaderRecords, rows \in SeqsUpTo(DataRecords, MaxRows)}

Init ==
    /\ call = "none"
    /\ ret = NoResult
    /\ prev = NoPrev
    /\ \/ /\ inputKind = "vec"
          /\ \E data \in VecInputs : args = <<data>>
       \/ /\ inputKind = "pair"
          /\ \E n, m \in 0..MaxPairLen :
               \E a \in [1..n -> PairVals], b \in [1..m -> ImagVals] :
                 args = <<a, b>>
       \/ /\ inputKind = "freq"
          /\ \E len \in 0..MaxN, t \in SamplingIntervals : args = <<len, t>>
       \/ /\ inputKind = "path"
          /\ \E file \in Files : args = <<file>>

----------------------------------------------------------------------------
(* The calls.  A call takes the inputs the host prepared (call = "none") or  *)
(* the value the previous call returned; prev remembers that previous call. *)

Fresh(kind) == call = "none" /\ inputKind = kind
This == [call |-> call, args |-> args]

ReadCsvPy ==
    /\ Fresh("path")
    /\ call' = "read_csv"
    /\ ret' = ReadCsv(args[1])
    /\ UNCHANGED <<inputKind, args, prev>>

FftShiftPy ==
    \/ /\ Fresh("pair")
       /\ call' = "fft_shift"
       /\ ret' = FftShift(args[1], args[2])
       /\ UNCHANGED <<inputKind, args, prev>>
    \/ /\ call = "fft_shift" /\ ret.status = "ok"
       /\ call' = "fft_shift"
       /\ args' = ret.value
       /\ ret' = FftShift(ret.value[1], ret.value[2])
       /\ prev' = This
       /\ UNCHANGED inputKind

ComputeMagnitudePy ==
    \/ /\ Fresh("pair")
       /\ call' = "compute_magnitude"
       /\ ret' = ComputeMagnitude(args[1], args[2])
       /\ UNCHANGED <<inputKind, args, prev>>
    \/ /\ call = "fft_shift" /\ ret.status = "ok"
       /\ call' = "compute_magnitude"
       /\ args' = ret.value
       /\ ret' = ComputeMagnitude(ret.value[1], ret.value[2])
       /\ prev' = This
       /\ UNCHANGED inputKind

GenerateFrequenciesPy ==
    /\ Fresh("freq")
    /\ call' = "generate_frequencies"
    /\ ret' = GenerateFrequencies(args[1], args[2])
    /\ UNCHANGED <<inputKind, args, prev>>

FftShiftFrequenciesPy ==
    \/ /\ Fresh("vec")
       /\ call' = "fft_shift_frequencies"
       /\ ret' = FftShiftFrequencies(args[1])
       /\ UNCHANGED <<inputKind, args, prev>>
    \/ /\ call \in {"generate_frequencies", "fft_shift_frequencies"}
       /\ ret.status = "ok"
       /\ call' = "fft_shift_frequencies"
       /\ args' = <<ret.value>>
       /\ ret' = FftShiftFrequencies(ret.value)
       /\ prev' = This
       /\ UNCHANGED inputKind

GeneratePlotPyCall ==
    /\ Fresh("pair")
    /\ call' = "generate_plot"
    /\ GeneratePlotPy(ret', args[1], args[2], "x", "y", "title")
    /\ UNCHANGED <<inputKind, args, prev>>

Next ==
    \/ ReadCsvPy
    \/ FftShiftPy
    \/ ComputeMagnitudePy
    \/ GenerateFrequenciesPy
    \/ FftShiftFrequenciesPy
    \/ GeneratePlotPyCall

Spec == Init /\ [][Next]_vars

----------------------------------------------------------------------------
(* Vocabulary of the properties *)

\* out is inp rotated left by n: out[i] = inp[(i + n) mod L], indices from 0
IsLeftRotation(out, inp, n) ==
    /\ Len(out) = Len(inp)
    /\ \A i \in 0..(Len(inp) - 1) : out[i + 1] = inp[((i + n) % Len(inp)) + 1]

Distinct(s) == \A i, j \in 1..Len(s) : i # j => s[i] # s[j]

StrictlyIncreasing(s) == \A i \in 1..(Len(s) - 1) : RatLt(s[i], s[i + 1])

Min(a, b) == IF a < b THEN a ELSE b

\* q = n / (len * t), compared without dividing
EqualsQuotient(q, n, len, t) == q[2] > 0 /\ q[1] * (len * t[1]) = n * t[2] * q[2]

ShiftOfSequence == call = "fft_shift_frequencies"
ShiftOfEqualPair == call = "fft_shift" /\ Len(args[1]) = Len(args[2])

\* The half rotation of one sequence, as claim C1 states it
HalfRotated(out, inp) ==
    /\ IsLeftRotation(out, inp, Len(inp) \div 2)
    /\ Len(inp) >= 1 => out[1] = inp[(Len(inp) \div 2) + 1]
    /\ Len(inp) <= 1 => out = inp

\* C1: fft_shift_frequencies(x), and each output of fft_shift on an equal-length
\* pair, is the input rotated left by floor(L/2): same length, output[i] =
\* input[(i + floor(L/2)) mod L], the element at floor(L/2) comes first, and a
\* sequence of length 0 or 1 is returned unchanged.
C1_ShiftIsHalfRotation ==
    /\ ShiftOfSequence =>
         ret.status = "ok" /\ HalfRotated(ret.value, args[1])
    /\ ShiftOfEqualPair =>
         /\ ret.status = "ok"
         /\ HalfRotated(ret.value[1], args[1])
         /\ HalfRotated(ret.value[2], args[2])

C1_Witness ==
    /\ ShiftOfEqualPair
    /\ Len(args[1]) = 3
    /\ ret.status = "ok"
    /\ ret.value[1] # args[1]
    /\ ret.value[2] # args[2]

\* C2: fft_shift on sequences of different lengths never fails, and each
\* output is its own input rotated left by half of its own length.
C2_MismatchedPairRotatedIndependently ==
    (call = "fft_shift" /\ Len(args[1]) # Len(args[2])) =>
        /\ ret.status = "ok"
        /\ IsLeftRotation(ret.value[1], args[1], Len(args[1]) \div 2)
        /\ IsLeftRotation(ret.value[2], args[2], Len(args[2]) \div 2)

\* C3: for N >= 1 and T > 0, generate_frequencies(N, T) returns N values, the
\* one at index k being k / (N*T) for k < floor(N/2) and -(N - k) / (N*T)
\* otherwise; generate_frequencies(4, 1.0) = [0.0, 0.25, -0.5, -0.25].
C3_FrequencyFormula ==
    (call = "generate_frequencies" /\ args[1] >= 1 /\ RatLt(Zero, args[2])) =>
        LET N == args[1]
            T == args[2]
        IN  /\ ret.status = "ok"
            /\ Len(ret.value) = N
            /\ \A k \in 0..(N - 1) :
                 IF k < N \div 2
                 THEN EqualsQuotient(ret.value[k + 1], k, N, T)
                 ELSE EqualsQuotient(ret.value[k + 1], -(N - k), N, T)
            /\ (N = 4 /\ T = <<1, 1>>) =>
                 ret.value = << <<0, 1>>, <<1, 4>>, <<-1, 2>>, <<-1, 4>> >>

C3_Witness ==
    /\ call = "generate_frequencies"
    /\ args = <<4, <<1, 1>>>>
    /\ ret.status = "ok"
    /\ ret.value[3] = <<-1, 2>>

\* C4: for every N >= 1 the bins of generate_frequencies(N, T) follow the
\* unshifted FFT layout: index 0 holds frequency 0, indices 1..floor(N/2) hold
\* positive frequencies in strictly ascending order, the rest are negative.
C4_UnshiftedFftLayout ==
    (call = "generate_frequencies" /\ ret.status = "ok") =>
        LET N == args[1]
            f == ret.value
        IN  /\ f[1] = Zero
            /\ \A k \in 1..(N \div 2) :
                 /\ k <= N - 1
                 /\ RatLt(Zero, f[k + 1])
                 /\ RatLt(f[k], f[k + 1])
            /\ \A k \in ((N \div 2) + 1)..(N - 1) : RatLt(f[k + 1], Zero)

\* C5: for every L >= 1 the shifts move the element at input index 0 to the
\* centre of the output, index floor(L/2), for even and for odd L.
C5_ZeroBinMovesToCentre ==
    /\ (ShiftOfSequence /\ Len(args[1]) >= 1) =>
         ret.status = "ok" /\ ret.value[(Len(args[1]) \div 2) + 1] = args[1][1]
    /\ (ShiftOfEqualPair /\ Len(args[1]) >= 1) =>
         /\ ret.status = "ok"
         /\ ret.value[1][(Len(args[1]) \div 2) + 1] = args[1][1]
         /\ ret.value[2][(Len(args[2]) \div 2) + 1] = args[2][1]

----------------------------------------------------------------------------
(* C6: the shift applied twice *)

\* The state after shift(shift(x)): x is prev.args, shift(x) is args
TwiceShiftedSequence ==
    call = "fft_shift_frequencies" /\ prev.call = "fft_shift_frequencies"
TwiceShiftedEqualPair ==
    /\ call = "fft_shift" /\ prev.call = "fft_shift"
    /\ Len(prev.args[1]) = Len(prev.args[2])

\* out = shift(shift(x)) is x rotated by 2*floor(L/2); it is x for even L and
\* differs from x for odd L >= minOdd when the elements of x are distinct
DoubleShift(out, x, minOdd) ==
    LET L == Len(x)
    IN  /\ IsLeftRotation(out, x, 2 * (L \div 2))
        /\ L % 2 = 0 => out = x
        /\ (L % 2 = 1 /\ L >= minOdd /\ Distinct(x)) => out # x
        /\ L < minOdd => out = x

DoubleShiftHolds(minOdd) ==
    /\ TwiceShiftedSequence =>
         ret.status = "ok" /\ DoubleShift(ret.value, prev.args[1], minOdd)
    /\ TwiceShiftedEqualPair =>
         /\ ret.status = "ok"
         /\ DoubleShift(ret.value[1], prev.args[1], minOdd)
         /\ DoubleShift(ret.value[2], prev.args[2], minOdd)

\* C6 as stated: shift(shift(x)) is x rotated left by 2*floor(L/2); it is the
\* identity for every even L and, over distinct elements, not for any odd L.
C6_DoubleShiftIdentityOnlyIfEven == DoubleShiftHolds(0)

\* C6 amended: shift(shift(x)) is x rotated left by 2*floor(L/2); it is the
\* identity for every even L and for L = 1 and, over distinct elements, not
\* the identity for any odd L >= 3.
C6_DoubleShiftIdentityIffEvenOrOne == DoubleShiftHolds(3)

C6_Witness ==
    /\ TwiceShiftedSequence
    /\ Len(prev.args[1]) = 5
    /\ Distinct(prev.args[1])
    /\ ret.value # prev.args[1]

----------------------------------------------------------------------------
(* C7: read_csv and short records *)

\* The number a field of the explored files denotes, read off the text
Numeric(f) == f \in {<<"1">>, <<" ", "2", " ">>}
NumberOf(f) == IF f = <<"1">> THEN <<1, 1>> ELSE <<2, 1>>

IsLong(record) == Len(record) >= 2
LongRows(file) == SelectSeq(Tail(file.records), IsLong)

\* A file with a header row whose records of two or more fields start with
\* two numbers
ReadableFile(file) ==
    /\ file.exists
    /\ file.records # <<>>
    /\ \A i \in 1..Len(LongRows(file)) :
         Numeric(LongRows(file)[i][1]) /\ Numeric(LongRows(file)[i][2])

Column(file, c) ==
    [i \in 1..Len(LongRows(file)) |-> NumberOf(LongRows(file)[i][c])]

\* C7: on a CSV file with a header row, read_csv skips without an error every
\* data record with fewer than two fields and returns, in file order, the
\* parsed fields 0 and 1 of all other records as two equal-length sequences
\* (header t,v and rows 0,1 / 1,2 / 2 give time = [0,1], values = [1,2]).
\* Stated for the files the loader is written for, whose header names two or
\* more columns.
C7_ShortRecordsSkipped ==
    (/\ call = "read_csv"
     /\ ReadableFile(args[1])
     /\ Len(Head(args[1].records)) >= 2) =>
        /\ ret.status = "ok"
        /\ ret.value = <<Column(args[1], 1), Column(args[1], 2)>>

----------------------------------------------------------------------------
\* C8: compute_magnitude returns an error exactly when len(real) # len(imag)
\* and otherwise a sequence of length len(real); generate_frequencies returns
\* an error exactly when N = 0 or T <= 0 and otherwise a sequence of length N;
\* an erroring call returns no partial sequence.
C8_ValidationIsExact ==
    /\ call = "compute_magnitude" =>
         /\ ret.status \in {"ok", "err"}
         /\ ret.status = "err" <=> Len(args[1]) # Len(args[2])
         /\ ret.status = "ok" => Len(ret.value) = Len(args[1])
         /\ ret.status = "err" => ret.value = <<>>
    /\ call = "generate_frequencies" =>
         /\ ret.status \in {"ok", "err"}
         /\ ret.status = "err" <=> (args[1] = 0 \/ ~RatLt(Zero, args[2]))
         /\ ret.status = "ok" => Len(ret.value) = args[1]
         /\ ret.status = "err" => ret.value = <<>>

C8_Witness ==
    /\ call = "compute_magnitude"
    /\ Len(args[1]) = 3 /\ Len(args[2]) = 2
    /\ ret.status = "err"

\* C9: no operation on a pair of sequences silently truncates to the shorter
\* one: with lengths that differ, generate_plot_py, compute_magnitude and
\* fft_shift never return a result built from the first min(len_a, len_b)
\* elements only.  For generate_plot_py it is stated of the charts with proper
\* axis ranges, which plotters is known to draw.
C9_NoSilentTruncation ==
    LET shorter == Min(Len(args[1]), Len(args[2]))
        mismatch == Len(args[1]) # Len(args[2])
    IN  /\ (call = "generate_plot" /\ mismatch) =>
             ~(/\ ret.status = "ok"
               /\ ~Degenerate(ret.value)
               /\ Series(ret.value) =
                    [i \in 1..shorter |-> <<args[1][i], args[2][i]>>])
        /\ (call = "compute_magnitude" /\ mismatch) =>
             ~(ret.status = "ok" /\ Len(ret.value) = shorter)
        /\ (call = "fft_shift" /\ mismatch) =>
             ~(/\ ret.status = "ok"
               /\ Len(ret.value[1]) = shorter
               /\ Len(ret.value[2]) = shorter)

\* C10: for N >= 1 and T > 0, fft_shift_frequencies(generate_frequencies(N, T))
\* is strictly increasing and holds the value 0 exactly once; for N = 4,
\* T = 1.0 it is [-0.5, -0.25, 0.0, 0.25].
C10_CentredAxisIncreasing ==
    (call = "fft_shift_frequencies" /\ prev.call = "generate_frequencies") =>
        /\ ret.status = "ok"
        /\ StrictlyIncreasing(ret.value)
        /\ Cardinality({i \in 1..Len(ret.value) : ret.value[i] = Zero}) = 1
        /\ prev.args = <<4, <<1, 1>>>> =>
             ret.value = << <<-1, 2>>, <<-1, 4>>, <<0, 1>>, <<1, 4>> >>

====
